---- MODULE Spec2Model ----
(***************************************************************************)
(* A model of service_client/core/client.py: the BaseClient / BaseClientAPI *)
(* binding done in __new__, and the BaseClient.request dispatch pipeline.   *)
(*                                                                          *)
(* Python strings are sequences of one-character strings, bytes are         *)
(* sequences of integers 0..255, a dict is a function from its keys.        *)
(* Python values of different types met in one dict are tagged records      *)
(* [t |-> type, v |-> payload].                                             *)
(***************************************************************************)
EXTENDS Integers, Sequences, FiniteSets, TLC

VARIABLES
    clsDeclaresClient, \* does the composite node type declare a class attribute `client = None`
    nodeState,         \* per prototype node: "undefined" | "alive" | "raised"
    nodeClient,        \* per node: its instance attribute `client` (NoClient is None)
    nodeDict,          \* per node: the child attributes in its instance __dict__ (name -> object)
    nodeBaseUrl,       \* per node: its `base_url` attribute, or Absent
    clients,           \* the constructed Clients, in construction order: [base_url, dict, http]
    opts,              \* the caller's own options dict object
    phase,             \* "idle" | "done": the caller's position
    last               \* the last operation and what it produced

vars == <<clsDeclaresClient, nodeState, nodeClient, nodeDict, nodeBaseUrl,
          clients, opts, phase, last>>

(***************************************************************************)
(* Bounds                                                                   *)
(***************************************************************************)
MaxClients == 2

(***************************************************************************)
(* Python values                                                            *)
(***************************************************************************)
PyNone == [t |-> "None", v |-> 0]
Str(s) == [t |-> "str", v |-> s]
Num(n) == [t |-> "num", v |-> n]
Dict(items) == [t |-> "dict", v |-> items]   \* items: sequence of <<key, value>> strings, insertion order
Absent == [t |-> "absent", v |-> 0]          \* no such attribute

\* bool(value) for the values modelled
Truthy(val) ==
    CASE val.t = "None" -> FALSE
      [] val.t = "str"  -> val.v # <<>>
      [] val.t = "num"  -> val.v # 0
      [] val.t = "dict" -> val.v # <<>>
      [] OTHER          -> FALSE

\* dict.pop(key, default) as the dict left behind, and dict.get(key, default)
DictWithout(d, key) == [k \in (DOMAIN d) \ {key} |-> d[k]]
DictGet(d, key, default) == IF key \in DOMAIN d THEN d[key] ELSE default
\* d[key] = val
DictSet(d, key, val) == [k \in (DOMAIN d) \cup {key} |-> IF k = key THEN val ELSE d[k]]

(***************************************************************************)
(* Strings                                                                  *)
(***************************************************************************)
StartsWith(s, p) == Len(s) >= Len(p) /\ SubSeq(s, 1, Len(p)) = p
EndsWith(s, p) == Len(s) >= Len(p) /\ SubSeq(s, Len(s) - Len(p) + 1, Len(s)) = p

\* str.rstrip('/'): every trailing slash goes
RECURSIVE RStripSlash(_)
RStripSlash(s) ==
    IF s # <<>> /\ s[Len(s)] = "/" THEN RStripSlash(SubSeq(s, 1, Len(s) - 1)) ELSE s

HTTP == <<"h", "t", "t", "p">>
HTTPS == <<"h", "t", "t", "p", "s">>
\* url.startswith(('http', 'https'))
IsAbsolute(url) == StartsWith(url, HTTP) \/ StartsWith(url, HTTPS)

\* str.upper() on the method names used
Upper(method) ==
    CASE method = "get"    -> "GET"
      [] method = "post"   -> "POST"
      [] method = "put"    -> "PUT"
      [] method = "patch"  -> "PATCH"
      [] method = "delete" -> "DELETE"
      [] OTHER             -> method

\* urllib.parse.quote_plus on one character: the unreserved ones stay, a space
\* becomes '+', every other one is percent-encoded.
Unreserved == {"a", "b", "c", "x", "y", "z", "0", "1", "2", "_", ".", "-", "~"}
PercentOf(ch) ==
    CASE ch = "&" -> <<"%", "2", "6">>
      [] ch = "=" -> <<"%", "3", "D">>
      [] ch = "/" -> <<"%", "2", "F">>
      [] ch = "?" -> <<"%", "3", "F">>
      [] ch = ":" -> <<"%", "3", "A">>
      [] ch = "+" -> <<"%", "2", "B">>
      [] ch = "%" -> <<"%", "2", "5">>
QuoteChar(ch) ==
    IF ch \in Unreserved THEN <<ch>>
    ELSE IF ch = " " THEN <<"+">>
    ELSE PercentOf(ch)
RECURSIVE QuotePlus(_)
QuotePlus(s) == IF s = <<>> THEN <<>> ELSE QuoteChar(Head(s)) \o QuotePlus(Tail(s))

\* urllib.parse.urlencode on a dict of strings: k=v pairs joined by '&'
RECURSIVE UrlEncode(_)
UrlEncode(items) ==
    IF items = <<>> THEN <<>>
    ELSE LET pair == QuotePlus(items[1][1]) \o <<"=">> \o QuotePlus(items[1][2])
         IN  IF Len(items) = 1 THEN pair
             ELSE pair \o <<"&">> \o UrlEncode(Tail(items))

\* bytes.decode('utf-8'), strict: the code points, or a UnicodeDecodeError
IsCont(b) == 128 <= b /\ b <= 191
RECURSIVE Utf8Decode(_)
Utf8Decode(bs) ==
    IF bs = <<>> THEN [ok |-> TRUE, text |-> <<>>]
    ELSE LET b1 == bs[1]
             n  == Len(bs)
             width == IF b1 < 128 THEN 1
                      ELSE IF 194 <= b1 /\ b1 <= 223 THEN 2
                      ELSE IF 224 <= b1 /\ b1 <= 239 THEN 3
                      ELSE IF 240 <= b1 /\ b1 <= 244 THEN 4
                      ELSE 0
             wellFormed ==
                 /\ width > 0
                 /\ n >= width
                 /\ \A i \in 2..width : IsCont(bs[i])
                 /\ (b1 = 224 => bs[2] >= 160)
                 /\ (b1 = 237 => bs[2] <= 159)
                 /\ (b1 = 240 => bs[2] >= 144)
                 /\ (b1 = 244 => bs[2] <= 143)
             cp == CASE width = 1 -> b1
                     [] width = 2 -> (b1 - 192) * 64 + (bs[2] - 128)
                     [] width = 3 -> (b1 - 224) * 4096 + (bs[2] - 128) * 64 + (bs[3] - 128)
                     [] OTHER     -> (b1 - 240) * 262144 + (bs[2] - 128) * 4096
                                     + (bs[3] - 128) * 64 + (bs[4] - 128)
         IN  IF ~wellFormed THEN [ok |-> FALSE, text |-> <<>>]
             ELSE LET rest == Utf8Decode(SubSeq(bs, width + 1, n))
                  IN  IF rest.ok THEN [ok |-> TRUE, text |-> <<cp>> \o rest.text]
                      ELSE rest

(***************************************************************************)
(* BaseClient.request, lines 81-111                                         *)
(***************************************************************************)
DefaultTimeout == 30
DefaultRetries == 3
StatusOK == 200
StatusMultipleChoices == 300
EmptyDict == Dict(<<>>)

\* lines 90-91: POST and PUT pop `fields` and append '?' and its query-encoding
EncodeFieldsDroppingQuery(method, url, kw) ==
    IF Upper(method) \in {"POST", "PUT"}
    THEN [url |-> url, kw |-> DictWithout(kw, "fields")]
    ELSE [url |-> url, kw |-> kw]
EncodeFields(method, url, kw) ==
    IF Upper(method) \in {"POST", "PUT"}
    THEN [url |-> url \o <<"?">> \o UrlEncode(DictGet(kw, "fields", EmptyDict).v),
          kw  |-> DictWithout(kw, "fields")]
    ELSE [url |-> url, kw |-> kw]

\* lines 92-97: a default for each of timeout, headers, retries that is not a key
InjectDefaultsWhenFalsy(kw) ==
    LET k1 == IF ~Truthy(DictGet(kw, "timeout", PyNone))
              THEN DictSet(kw, "timeout", Num(DefaultTimeout)) ELSE kw
        k2 == IF ~Truthy(DictGet(k1, "headers", PyNone))
              THEN DictSet(k1, "headers", EmptyDict) ELSE k1
    IN  IF ~Truthy(DictGet(k2, "retries", PyNone))
        THEN DictSet(k2, "retries", Num(DefaultRetries)) ELSE k2
InjectDefaults(kw) ==
    LET k1 == IF "timeout" \notin DOMAIN kw
              THEN DictSet(kw, "timeout", Num(DefaultTimeout)) ELSE kw
        k2 == IF "headers" \notin DOMAIN k1
              THEN DictSet(k1, "headers", EmptyDict) ELSE k1
    IN  IF "retries" \notin DOMAIN k2
        THEN DictSet(k2, "retries", Num(DefaultRetries)) ELSE k2

\* lines 98-101: a truthy base_url option is popped and used, else self.base_url
ChooseBase(selfBase, kw) ==
    IF "base_url" \in DOMAIN kw /\ Truthy(kw["base_url"])
    THEN [base |-> kw["base_url"].v, kw |-> DictWithout(kw, "base_url")]
    ELSE [base |-> selfBase, kw |-> kw]

\* line 102
ResolveUrl(base, url) == IF IsAbsolute(url) THEN url ELSE base \o url

\* lines 104-111: the response is returned, or its decoded body is raised
NoOutcome == [kind |-> "none", status |-> 0, data |-> <<>>, msg |-> <<>>, original |-> <<>>]
Classify(rsp, reqUrl) ==
    IF StatusOK <= rsp.status /\ rsp.status < StatusMultipleChoices
    THEN [NoOutcome EXCEPT !.kind = "return", !.status = rsp.status, !.data = rsp.data]
    ELSE LET data == Utf8Decode(rsp.data)
         IN  IF data.ok
             THEN [NoOutcome EXCEPT !.kind = "ClientError", !.msg = data.text,
                                    !.original = reqUrl]
             ELSE [NoOutcome EXCEPT !.kind = "UnicodeDecodeError"]

\* what the transport's request(method, url, **kwargs) was handed
NothingSent == [any |-> FALSE, method |-> "", url |-> <<>>, kw |-> <<>>]

\* the whole of request: what self.http.request receives, and the outcome
Request(selfBase, method, url, kwargs, rsp) ==
    LET enc    == EncodeFields(method, url, kwargs)
        kw     == InjectDefaults(enc.kw)
        chosen == ChooseBase(selfBase, kw)
        reqUrl == ResolveUrl(chosen.base, enc.url)
    IN  [sent    |-> [any |-> TRUE, method |-> method, url |-> reqUrl, kw |-> chosen.kw],
         outcome |-> Classify(rsp, reqUrl)]

\* lines 61-79: get/post/put/patch/delete name the method and call request
MethodOf(name) ==
    CASE name = "get"    -> "GET"
      [] name = "post"   -> "POST"
      [] name = "put"    -> "PUT"
      [] name = "patch"  -> "PATCH"
      [] name = "delete" -> "DELETE"

\* The callee's **kwargs is a dict of its own, built at the call (line 81, and
\* again at lines 63-79 and 147-163): the caller's dict object is what it was.
CallerBagAliased(callerBag, calleeKwargs) == calleeKwargs
CallerBagAfterCall(callerBag, calleeKwargs) == callerBag

(***************************************************************************)
(* BaseClientAPI helpers, lines 145-163                                     *)
(***************************************************************************)
\* hasattr(self, 'base_url') and kwargs.update({'base_url': self.base_url})
HelperKwargsKeepingCallers(attr, kw) ==
    IF attr # Absent /\ "base_url" \notin DOMAIN kw THEN DictSet(kw, "base_url", attr) ELSE kw
HelperKwargs(attr, kw) ==
    IF attr # Absent THEN DictSet(kw, "base_url", attr) ELSE kw

(***************************************************************************)
(* The declared types: a Client type with two API nodes, one of which       *)
(* declares an API node of its own.  Each prototype object is named after   *)
(* the class attribute that holds it.                                       *)
(***************************************************************************)
Nodes == {"users", "orders", "profile"}
NoClient == 0

\* getmembers(cls, predicate=is_client_api), lines 53 and 137
Members(owner) ==
    CASE owner = "client" -> {"users", "orders"}
      [] owner = "users"  -> {"profile"}
      [] OTHER            -> {}

\* attribute lookup: the instance __dict__, then the class
ClientAttr(c, name) ==
    IF name \in DOMAIN clients[c].dict THEN clients[c].dict[name] ELSE name
NodeAttr(n, name) ==
    IF name \in DOMAIN nodeDict[n] THEN nodeDict[n][name] ELSE name
Paths == {<<"users">>, <<"orders">>, <<"users", "profile">>}
Resolve(c, path) ==
    IF Len(path) = 1 THEN ClientAttr(c, path[1])
    ELSE NodeAttr(ClientAttr(c, path[1]), path[2])
SeenBaseUrl(c, path) == nodeBaseUrl[Resolve(c, path)]
Constructed == 1..Len(clients)

NoOp == [op |-> "none", via |-> 0, path |-> <<>>, by |-> 0, method |-> "", url |-> <<>>,
         optsBefore |-> <<>>, rsp |-> [status |-> 0, data |-> <<>>],
         sent |-> NothingSent, outcome |-> NoOutcome]

ImportFailed == \E n \in Nodes : nodeState[n] = "raised"

\* BaseClientAPI.__new__ then __init__ (lines 117-143), run while the class
\* body that holds the prototype is evaluated
NewNode(n) ==
    /\ phase = "idle"
    /\ ~ImportFailed
    /\ nodeState[n] = "undefined"
    /\ \A m \in Members(n) : nodeState[m] = "alive"
    /\ IF Members(n) # {} /\ ~clsDeclaresClient
       THEN \* line 140: instance.client is read before __init__ has set it
            /\ nodeState' = [nodeState EXCEPT ![n] = "raised"]
            /\ UNCHANGED <<nodeClient, nodeDict>>
       ELSE /\ nodeState' = [nodeState EXCEPT ![n] = "alive"]
            \* line 140: api.client = instance.client, the class attribute (None);
            \* line 125: self.client = client, the default None
            /\ nodeClient' = [m \in Nodes |->
                                 IF m \in Members(n) \/ m = n THEN NoClient
                                 ELSE nodeClient[m]]
            \* line 141
            /\ nodeDict' = [nodeDict EXCEPT ![n] = [name \in Members(n) |-> name]]
    /\ UNCHANGED <<clsDeclaresClient, nodeBaseUrl, clients, opts, phase, last>>

\* BaseClient.__init__, lines 35-38
NormalizeBase(baseUrl) == IF EndsWith(baseUrl, <<"/">>) THEN RStripSlash(baseUrl) ELSE baseUrl

\* BaseClient.__new__ then __init__ (lines 23-59)
NewClient(baseUrl, limit) ==
    /\ phase = "idle"
    /\ ~ImportFailed
    /\ Len(clients) < limit
    /\ \A m \in Members("client") : nodeState[m] = "alive"
    /\ LET instance == Len(clients) + 1
       IN  \* line 56: api.client = instance
           /\ nodeClient' = [m \in Nodes |->
                                IF m \in Members("client") THEN instance ELSE nodeClient[m]]
           \* line 57: setattr(instance, name, api)
           /\ clients' = Append(clients,
                                [base_url |-> NormalizeBase(baseUrl),
                                 dict |-> [name \in Members("client") |-> name]])
    /\ UNCHANGED <<clsDeclaresClient, nodeState, nodeDict, nodeBaseUrl, opts, phase, last>>

\* a caller's assignment `client.<path>.base_url = val`
SetNodeBaseUrl(c, path, val) ==
    /\ phase = "idle"
    /\ c \in Constructed
    /\ nodeBaseUrl[Resolve(c, path)] # val
    /\ nodeBaseUrl' = [nodeBaseUrl EXCEPT ![Resolve(c, path)] = val]
    /\ UNCHANGED <<clsDeclaresClient, nodeState, nodeClient, nodeDict, clients, opts,
                   phase, last>>

\* the caller builds an options dict
NewOptions(bag) ==
    /\ phase = "idle"
    /\ opts # bag
    /\ opts' = bag
    /\ UNCHANGED <<clsDeclaresClient, nodeState, nodeClient, nodeDict, nodeBaseUrl,
                   clients, phase, last>>

\* client.request(method, url, **opts), lines 81-111
ClientRequest(c, method, url, rsp) ==
    /\ phase = "idle"
    /\ c \in Constructed
    /\ LET r == Request(clients[c].base_url, method, url, opts, rsp)
       IN  /\ last' = [NoOp EXCEPT !.op = "call", !.via = c, !.by = c, !.method = method,
                                   !.url = url, !.optsBefore = opts, !.rsp = rsp,
                                   !.sent = r.sent, !.outcome = r.outcome]
           /\ opts' = CallerBagAfterCall(opts, r.sent.kw)
    /\ phase' = "done"
    /\ UNCHANGED <<clsDeclaresClient, nodeState, nodeClient, nodeDict, nodeBaseUrl, clients>>

\* client.get/post/put/patch/delete(url, **opts), lines 61-79
ClientCall(c, name, url, rsp) == ClientRequest(c, MethodOf(name), url, rsp)

\* client.<path>._get/_post/_put/_patch/_delete(url, **opts), lines 145-163
NodeCall(c, path, name, url, rsp) ==
    /\ phase = "idle"
    /\ c \in Constructed
    /\ LET self   == Resolve(c, path)
           kwargs == HelperKwargs(nodeBaseUrl[self], opts)
           owner  == nodeClient[self]
           call   == [NoOp EXCEPT !.op = "helper", !.via = c, !.path = path,
                                  !.method = MethodOf(name), !.url = url,
                                  !.optsBefore = opts, !.rsp = rsp]
       IN  IF owner = NoClient
           THEN \* self.client is None: None has no get/post/...
                /\ last' = [call EXCEPT !.outcome = [NoOutcome EXCEPT !.kind = "AttributeError"]]
                /\ opts' = CallerBagAfterCall(opts, kwargs)
           ELSE LET r == Request(clients[owner].base_url, MethodOf(name), url, kwargs, rsp)
                IN  /\ last' = [call EXCEPT !.by = owner, !.sent = r.sent,
                                            !.outcome = r.outcome]
                    /\ opts' = CallerBagAfterCall(opts, r.sent.kw)
    /\ phase' = "done"
    /\ UNCHANGED <<clsDeclaresClient, nodeState, nodeClient, nodeDict, nodeBaseUrl, clients>>

\* the caller takes the result, or catches the error, and goes on
Return ==
    /\ phase = "done"
    /\ phase' = "idle"
    /\ last' = NoOp
    /\ UNCHANGED <<clsDeclaresClient, nodeState, nodeClient, nodeDict, nodeBaseUrl,
                   clients, opts>>

(***************************************************************************)
(* Inputs                                                                   *)
(***************************************************************************)
RelUrl == <<"/", "x">>
AbsUrl == <<"h", "t", "t", "p", ":", "/", "/", "o", "/", "y">>
BaseH == <<"h", "t", "t", "p", ":", "/", "/", "h", "/">>
BaseG == <<"h", "t", "t", "p", "s", ":", "/", "/", "g">>
BaseO == <<"h", "t", "t", "p", ":", "/", "/", "o">>
BaseS == <<"h", "t", "t", "p", ":", "/", "/", "s">>

WrapperNames == {"get", "post", "put", "patch", "delete"}
RawMethods == {"GET", "post"}
Urls == {RelUrl, AbsUrl}

\* status codes around the two boundaries; bodies "no", "é", and one that is not UTF-8
Statuses == {199, 200, 299, 300, 404}
Bodies == {<<110, 111>>, <<195, 169>>, <<255>>}
Responses == [status : Statuses, data : Bodies]
OkResponses == {[status |-> 200, data |-> <<110, 111>>]}

FieldsValues == {Dict(<< <<<<"a">>, <<"1">>>> >>),
                 Dict(<< <<<<"a", " ", "b">>, <<"&", "=">>>>, <<<<"c">>, <<"1">>>> >>)}
OptionValues(key) ==
    CASE key = "fields"   -> FieldsValues
      [] key = "timeout"  -> {Num(0)}
      [] key = "headers"  -> {PyNone}
      [] key = "retries"  -> {Num(0)}
      [] key = "base_url" -> {PyNone, Str(<<>>), Str(BaseO)}
OptionKeys == {"fields", "timeout", "headers", "retries", "base_url"}
OptionBags ==
    UNION {{bag \in [K -> UNION {OptionValues(k) : k \in K}] :
               \A k \in K : bag[k] \in OptionValues(k)} : K \in SUBSET OptionKeys}
NodeBaseUrls == {Absent, PyNone, Str(<<>>), Str(BaseS)}

(***************************************************************************)
(* Specifications                                                           *)
(***************************************************************************)
Init ==
    /\ clsDeclaresClient \in BOOLEAN
    /\ nodeState = [n \in Nodes |-> "undefined"]
    /\ nodeClient = [n \in Nodes |-> NoClient]
    /\ nodeDict = [n \in Nodes |-> <<>>]
    /\ nodeBaseUrl = [n \in Nodes |-> Absent]
    /\ clients = <<>>
    /\ opts = <<>>
    /\ phase = "idle"
    /\ last = NoOp

ClientBases == {BaseH, BaseG}

\* The request pipeline: one Client, every option bag, every response.
Next ==
    \/ \E n \in Nodes : NewNode(n)
    \/ \E baseUrl \in ClientBases : NewClient(baseUrl, 1)
    \/ \E val \in NodeBaseUrls : SetNodeBaseUrl(1, <<"orders">>, val)
    \/ \E bag \in OptionBags : NewOptions(bag)
    \/ \E method \in RawMethods, url \in Urls, rsp \in Responses :
           ClientRequest(1, method, url, rsp)
    \/ \E name \in WrapperNames, url \in Urls, rsp \in Responses :
           ClientCall(1, name, url, rsp)
    \/ \E name \in WrapperNames, url \in Urls, rsp \in Responses :
           NodeCall(1, <<"orders">>, name, url, rsp)
    \/ Return

Spec == Init /\ [][Next]_vars

\* The binding: up to MaxClients Clients of the one declared type.
NextBind ==
    \/ \E n \in Nodes : NewNode(n)
    \/ \E baseUrl \in ClientBases : NewClient(baseUrl, MaxClients)
    \/ \E c \in Constructed, path \in Paths, val \in {Str(<<>>), Str(BaseS)} :
           SetNodeBaseUrl(c, path, val)
    \/ \E c \in Constructed, path \in Paths, rsp \in OkResponses :
           NodeCall(c, path, "get", RelUrl, rsp)
    \/ Return

SpecBind == Init /\ [][NextBind]_vars

(***************************************************************************)
(* Claims                                                                   *)
(***************************************************************************)
Called == phase = "done" /\ last.op \in {"call", "helper"}
\* the transport was handed a request
Reached == Called /\ last.sent.any
InSuccessRange(status) == 200 <= status /\ status < 300
CallerKey(key) == key \in DOMAIN last.optsBefore
\* the node a helper call was made on, and its base_url attribute
HelperNode == Resolve(last.via, last.path)
HelperAttr == nodeBaseUrl[HelperNode]
ClientBase == clients[last.by].base_url
CallerBase ==
    IF CallerKey("base_url") /\ Truthy(last.optsBefore["base_url"])
    THEN last.optsBefore["base_url"].v
    ELSE ClientBase
\* str(value), as an f-string formats it
Formatted(val) == IF val.t = "str" THEN val.v ELSE <<"N", "o", "n", "e">>

\* C1: after a Client is constructed from the declared multi-level type, every
\* node at every depth, reached by attribute lookup from that Client, has
\* node.client identical to it (stated for the Client constructed last, which
\* no later construction has touched).
C1_BindingComplete ==
    clients # <<>> =>
        \A path \in Paths : nodeClient[Resolve(Len(clients), path)] = Len(clients)

\* C2: for any two Clients A and B of the same declared type, a base_url set on
\* a sub-node reached through A leaves what is seen on the corresponding
\* sub-node reached through B as it was.
C2_NoCrossInstanceLeak ==
    [][\A a \in Constructed, b \in Constructed, path \in Paths,
          val \in {Str(<<>>), Str(BaseS)} :
          (a # b /\ SetNodeBaseUrl(a, path, val))
              => SeenBaseUrl(b, path)' = SeenBaseUrl(b, path)]_vars

\* C3: once a node reachable from a constructed Client C has node.client = C,
\* it has node.client = C in every later state.
C3_NeverRebound ==
    [][\A c \in Constructed, path \in Paths :
          nodeClient[Resolve(c, path)] = c => nodeClient'[Resolve(c, path)] = c]_vars

\* C4: whenever the transport returns status s, a status in [200, 300) returns
\* the response unchanged, and any other status raises ClientError with the
\* UTF-8-decoded body as message and the URL handed to the transport as its URL.
C4_StatusClassification ==
    Reached =>
        IF InSuccessRange(last.rsp.status)
        THEN /\ last.outcome.kind = "return"
             /\ last.outcome.status = last.rsp.status
             /\ last.outcome.data = last.rsp.data
        ELSE /\ last.outcome.kind = "ClientError"
             /\ last.outcome.msg = Utf8Decode(last.rsp.data).text
             /\ last.outcome.original = last.sent.url

\* C5: for a call of request (or get/post/put/patch/delete) with no fields
\* option, the URL handed to the transport is the caller's url when it starts
\* with http, and otherwise the chosen base followed by the url, nothing more.
C5_UrlResolution ==
    (Reached /\ last.op = "call" /\ ~CallerKey("fields")) =>
        last.sent.url = IF IsAbsolute(last.url) THEN last.url ELSE CallerBase \o last.url

\* C6 as claimed: a helper on a node that carries base_url, called with a
\* relative url, hands the transport a URL starting with node.base_url followed
\* by url; on a node without base_url it forwards url and options unchanged and
\* the Client's base_url is used.
C6_NodeBaseAlwaysWins ==
    (Reached /\ last.op = "helper" /\ ~IsAbsolute(last.url)) =>
        IF HelperAttr # Absent
        THEN StartsWith(last.sent.url, Formatted(HelperAttr) \o last.url)
        ELSE StartsWith(last.sent.url, ClientBase \o last.url)

\* C6 as amended: a truthy node base_url is the base of a relative url whatever
\* the Client's and the caller's base_url are; a node without base_url forwards
\* the caller's options unchanged, so the base is the caller's truthy base_url
\* option and else the Client's; a falsy node base_url replaces the caller's
\* option and the Client's base_url is used.
C6_TruthyNodeBaseWins ==
    (Reached /\ last.op = "helper") =>
        /\ (HelperAttr = Absent =>
               last.sent = Request(ClientBase, last.method, last.url,
                                   last.optsBefore, last.rsp).sent)
        /\ ~IsAbsolute(last.url) =>
               StartsWith(last.sent.url,
                          (IF Truthy(HelperAttr) THEN HelperAttr.v
                           ELSE IF HelperAttr = Absent THEN CallerBase
                           ELSE ClientBase) \o last.url)
C6_Witness ==
    /\ Reached /\ last.op = "helper" /\ last.url = RelUrl
    /\ HelperAttr = Str(BaseS)
    /\ CallerKey("base_url") /\ last.optsBefore["base_url"] = Str(BaseO)
    /\ StartsWith(last.sent.url, BaseS \o RelUrl)

\* C7: each of timeout, headers, retries reaches the transport with the
\* caller's value when the caller gave the key, falsy or not, and with its
\* default (30.0, {}, 3) when the caller did not.
C7_DefaultInjection ==
    Reached =>
        /\ last.sent.kw["timeout"] =
               IF CallerKey("timeout") THEN last.optsBefore["timeout"] ELSE Num(30)
        /\ last.sent.kw["headers"] =
               IF CallerKey("headers") THEN last.optsBefore["headers"] ELSE Dict(<<>>)
        /\ last.sent.kw["retries"] =
               IF CallerKey("retries") THEN last.optsBefore["retries"] ELSE Num(3)
C7_Witness ==
    /\ Reached
    /\ CallerKey("timeout") /\ last.optsBefore["timeout"] = Num(0)
    /\ CallerKey("headers") /\ last.optsBefore["headers"] = PyNone
    /\ ~CallerKey("retries")
    /\ last.sent.kw["timeout"] = Num(0)
    /\ last.sent.kw["headers"] = PyNone
    /\ last.sent.kw["retries"] = Num(3)

\* the base a call resolves a relative url against, and the resolved url
C8_Base ==
    IF last.op = "helper" /\ HelperAttr # Absent
    THEN (IF Truthy(HelperAttr) THEN HelperAttr.v ELSE ClientBase)
    ELSE CallerBase
C8_Resolved == IF IsAbsolute(last.url) THEN last.url ELSE C8_Base \o last.url
\* the query-encoding of the two fields values: a=1 and a+b=%26%3D&c=1
C8_Query ==
    IF last.optsBefore["fields"] = Dict(<< <<<<"a">>, <<"1">>>> >>)
    THEN <<"a", "=", "1">>
    ELSE <<"a", "+", "b", "=", "%", "2", "6", "%", "3", "D", "&", "c", "=", "1">>

\* C8: a POST or PUT with fields hands the transport the resolved URL followed
\* by '?' and the query-encoding of fields, and no fields option; GET, PATCH
\* and DELETE append nothing and forward fields unchanged.
C8_FieldEncoding ==
    (Reached /\ CallerKey("fields")) =>
        IF last.method \in {"POST", "PUT", "post"}
        THEN /\ last.sent.url = C8_Resolved \o <<"?">> \o C8_Query
             /\ "fields" \notin DOMAIN last.sent.kw
        ELSE /\ last.sent.url = C8_Resolved
             /\ "fields" \in DOMAIN last.sent.kw
             /\ last.sent.kw["fields"] = last.optsBefore["fields"]
C8_Witness ==
    /\ Reached /\ last.method = "PUT" /\ last.url = RelUrl
    /\ CallerKey("fields") /\ last.optsBefore["fields"] # Dict(<< <<<<"a">>, <<"1">>>> >>)
    /\ ClientBase = <<"h", "t", "t", "p", ":", "/", "/", "h">>
    /\ last.sent.url = ClientBase \o RelUrl \o <<"?">> \o C8_Query
    /\ "fields" \notin DOMAIN last.sent.kw

\* C9 as claimed: after a call the caller's own options object holds the
\* injected defaults it did not hold before.
C9_CallerBagGetsDefaults ==
    Reached => \A key \in {"timeout", "headers", "retries"} : key \in DOMAIN opts

\* C9 as amended: the defaults are injected into the call's own keyword dict;
\* after the call the caller's options object is what it was before it.
C9_CallerBagUnchanged == Called => opts = last.optsBefore
C9_Witness ==
    /\ Reached
    /\ ~CallerKey("timeout")
    /\ last.sent.kw["timeout"] = Num(30)
    /\ "timeout" \notin DOMAIN opts

\* C10: the options handed to the transport never hold a base_url key.
C10_BaseUrlNeverForwarded == Reached => "base_url" \notin DOMAIN last.sent.kw

====
